---- MODULE Spec2Model ----
(***************************************************************************)
(* State-machine model of the SyncStream browser client                    *)
(* (src/static/script.js): the connection manager (connect, socket         *)
(* callbacks, heartbeat), the role flag and its cadence timer              *)
(* (startSyncIntervals), the inbound message dispatch (handleMessage) and  *)
(* the playback adapter (loadMedia, playMedia, pauseMedia, seekTo,         *)
(* getPosition, isPaused) with the listeners of the direct-file element.   *)
(*                                                                         *)
(* Units.  Time is counted in steps of 100 ms.  Playback positions and the *)
(* latency estimate count steps of 50 ms, so that half a round trip        *)
(* measured in clock steps is a whole number: a position of 5.0 s is 100   *)
(* and the tolerance of 3.0 s is 60.  A position changes only by a seek:   *)
(* the progress of playback between two callbacks is not modelled.         *)
(*                                                                         *)
(* Scheduling.  The page is single threaded: every action below is one     *)
(* callback run to completion.  A setTimeout callback runs at its due      *)
(* time (the clock does not pass a due timeout); in which order the        *)
(* callbacks that are runnable at the same instant run (a timer, a         *)
(* notification of the media element, a frame of the socket) is the        *)
(* browser's choice and is left open.  setInterval callbacks may run at    *)
(* any time while their timer is live (their period is abstracted).        *)
(***************************************************************************)
EXTENDS Integers, Sequences, FiniteSets, TLC

VARIABLES
    roomInput,      \* roomInput.value, a sequence of characters
    status,         \* what setStatus last showed: [text, state]
    socket,         \* the global `socket`: 0 is null, else a socket id
    readyState,     \* readyState of every WebSocket created so far
    isRemoteAction, \* the suppression flag
    lastSentSeek,   \* time of the last forwarded local seek
    pingInterval,   \* handle of the heartbeat timer (0 is null)
    syncInterval,   \* handle of the cadence timer (0 is null)
    latency,        \* one-way latency estimate
    queue,          \* the queue of the last snapshot
    currentMedia,   \* the current item (type "null" when there is none)
    ytPlayer,       \* the embedded-stream-A player object
    ytReady,        \* the provider API has finished loading
    isHost,         \* the role flag
    video,          \* the direct-file element #directVideo
    events,         \* notifications of the players not yet delivered
    intervals,      \* the live setInterval timers: [id, kind]
    timeouts,       \* due times of the pending suppression-clearing timeouts
    pings,          \* timestamps of the pings the relay has not echoed yet
    log             \* what the last callback did, in order; log[1] is the event

vars == <<roomInput, status, socket, readyState, isRemoteAction, lastSentSeek,
          pingInterval, syncInterval, latency, queue, currentMedia, ytPlayer,
          ytReady, isHost, video, events, intervals, timeouts, pings, log>>

----------------------------------------------------------------------------
(* Bounds of the model *)

\* WebSockets created in one run
MaxSockets == 2
\* how far back timestamps are told apart, in clock steps
Horizon == 5
\* player notifications pending at once
MaxEvents == 2
\* suppression timeouts pending at once
MaxTimeouts == 2

(* Program constants, in the units of the model *)

\* const SYNC_TOLERANCE = 3.0 (seconds), in 50 ms steps
SYNC_TOLERANCE == 60
\* setTimeout(() => isRemoteAction = false, 100), in clock steps
SuppressDelay == 1
\* now - lastSentSeek > 300, in clock steps
SeekDebounce == 3

\* Date.now().  The script uses timestamps only through differences (lines 259
\* and 398), so the model measures time from the present: the present is
\* always Horizon, and when the clock advances every stored timestamp moves one
\* step into the past instead.  A timestamp Horizon or more steps old is 0.
now == Horizon

----------------------------------------------------------------------------
(* Room codes: sequences of characters *)

Digits == {"0", "1", "2", "3", "4", "5", "6", "7", "8", "9"}
Upper  == {"A", "B", "C", "X", "Y", "Z"}

\* String.prototype.toUpperCase on one character
toUpperCase(c) ==
    CASE c = "a" -> "A" [] c = "b" -> "B" [] c = "c" -> "C"
      [] c = "x" -> "X" [] c = "y" -> "Y" [] c = "z" -> "Z"
      [] OTHER -> c

RECURSIVE Filter(_, _)
Filter(s, keep) ==
    IF s = <<>> THEN <<>>
    ELSE IF Head(s) \in keep THEN <<Head(s)>> \o Filter(Tail(s), keep)
         ELSE Filter(Tail(s), keep)

\* .slice(0, n)
slice(s, n) == IF Len(s) <= n THEN s ELSE SubSeq(s, 1, n)

\* the 'input' listener of the room field:
\* value.toUpperCase().replace(/[^0-9A-Z]/g, '').slice(0, 6)
sanitizeRoomMut(raw) == slice([i \in 1..Len(raw) |-> toUpperCase(raw[i])], 6)
sanitizeRoom(raw) ==
    slice(Filter([i \in 1..Len(raw) |-> toUpperCase(raw[i])], Digits \cup Upper), 6)

RECURSIVE trimLeft(_)
trimLeft(s) == IF s # <<>> /\ Head(s) = " " THEN trimLeft(Tail(s)) ELSE s
RECURSIVE trimRight(_)
trimRight(s) ==
    IF s # <<>> /\ s[Len(s)] = " " THEN trimRight(SubSeq(s, 1, Len(s) - 1)) ELSE s
\* String.prototype.trim
trim(s) == trimRight(trimLeft(s))

\* /^[0-9A-Z]{6}$/ : the room-code format
ValidRoomCode(s) == Len(s) = 6 /\ \A i \in 1..Len(s) : s[i] \in Digits \cup Upper

\* what a viewer may type or paste into the room field
RawRoomInputs ==
    { <<>>,
      <<"A", "B", "C", "1", "2">>,
      <<"a", "b", "c", "1", "2", "3">>,
      <<"A", "B", "$", "1", "2", "3">>,
      <<" ", "A", "B", "C", "1", "2">>,
      <<"X", "Y", "Z", "7", "8", "9", "0">> }

\* values generateCode() may return (six characters of 0-9A-Z)
GeneratedCodes == { <<"Z", "Z", "Z", "0", "0", "0">> }

----------------------------------------------------------------------------
(* Media items and the players *)

MediaTypes == {"youtube", "twitch_vod", "twitch_live", "direct"}
NoMedia == [type |-> "null", id |-> 0]
Media(t, i) == [type |-> t, id |-> i]

\* ytPlayer: obj is "ytPlayer is not null"; api is "the player's methods exist"
\* (the provider adds them when the player is ready); attached is "its frame
\* is still in playerContainer".  state is getPlayerState().
NoYT == [obj |-> FALSE, api |-> FALSE, attached |-> FALSE, time |-> 0,
         state |-> "unstarted"]
NewYT == [obj |-> TRUE, api |-> FALSE, attached |-> TRUE, time |-> 0,
          state |-> "unstarted"]

NoVideo == [present |-> FALSE, time |-> 0, paused |-> TRUE]
NewVideo == [present |-> TRUE, time |-> 0, paused |-> TRUE]

\* a pending notification; det is -1 while its element is in the document,
\* else the (frozen) currentTime of the removed element
\* by names what caused it: the op of the frame whose handler made the call, or
\* "user" for the viewer and the playback itself
Ev(k, by) == [kind |-> k, det |-> -1, by |-> by]
VideoEvents == {"play", "pause", "seeked", "ended"}
YTEvents == {"yt_playing", "yt_paused", "yt_ended"}

\* entries of the log; a host_update event has arg 1 when the role flag was
\* host before it, and flag is the role it asserts
\* the event a callback handles: k is "msg" (an inbound frame), "notify" (a
\* player notification), "timer", "socket" or "ui"
Evt(k, op, arg, flag) == [k |-> k, op |-> op, arg |-> arg, flag |-> flag]
Call(op, arg, flag) == [k |-> "call", op |-> op, arg |-> arg, flag |-> flag]
Back(op, arg, flag) == [k |-> "player", op |-> op, arg |-> arg, flag |-> flag]
Send(op, arg, flag) == [k |-> "send", op |-> op, arg |-> arg, flag |-> flag]
Sock(op, s) == [k |-> "socket", op |-> op, arg |-> s, flag |-> FALSE]
Status(text, state) == [k |-> "status", op |-> text, arg |-> 0, flag |-> state = "error"]
Toast(op) == [k |-> "toast", op |-> op, arg |-> 0, flag |-> FALSE]

\* The callbacks are sequences of calls; each call is an operator on a bundle
\* a = [yt, v, ev, ra, ts, log] of what the calls change: ytPlayer, the video
\* element, the pending notifications, isRemoteAction, the pending timeouts,
\* and the log.  A logged call records isRemoteAction at the time of the call.

\* function playMedia()
playMedia(a) ==
    LET a0 == [a EXCEPT !.log = Append(@, Call("play", 0, a.ra))]
        a1 == IF a0.yt.obj /\ a0.yt.api
              THEN [a0 EXCEPT
                      !.log = Append(@, Back("yt.playVideo", 0, a.ra)),
                      !.yt.state = IF a0.yt.attached THEN "playing" ELSE @,
                      !.ev = IF a0.yt.attached /\ a0.yt.state # "playing"
                             THEN Append(@, Ev("yt_playing", a.log[1].op)) ELSE @]
              ELSE a0
    IN  IF a1.v.present
        THEN [a1 EXCEPT
                !.log = Append(@, Back("video.play", 0, a.ra)),
                !.v.paused = FALSE,
                !.ev = IF a1.v.paused THEN Append(@, Ev("play", a.log[1].op)) ELSE @]
        ELSE a1

\* function pauseMedia()
pauseMedia(a) ==
    LET a0 == [a EXCEPT !.log = Append(@, Call("pause", 0, a.ra))]
        a1 == IF a0.yt.obj /\ a0.yt.api
              THEN [a0 EXCEPT
                      !.log = Append(@, Back("yt.pauseVideo", 0, a.ra)),
                      !.yt.state = IF a0.yt.attached /\ @ = "playing"
                                   THEN "paused" ELSE @,
                      !.ev = IF a0.yt.attached /\ a0.yt.state = "playing"
                             THEN Append(@, Ev("yt_paused", a.log[1].op)) ELSE @]
              ELSE a0
    IN  IF a1.v.present
        THEN [a1 EXCEPT
                !.log = Append(@, Back("video.pause", 0, a.ra)),
                !.v.paused = TRUE,
                !.ev = IF ~a1.v.paused THEN Append(@, Ev("pause", a.log[1].op)) ELSE @]
        ELSE a1

\* function seekTo(time)
seekTo(a, time) ==
    LET a0 == [a EXCEPT !.log = Append(@, Call("seekTo", time, a.ra))]
        a1 == IF a0.yt.obj /\ a0.yt.api
              THEN [a0 EXCEPT
                      !.log = Append(@, Back("yt.seekTo", time, a.ra)),
                      !.yt.time = IF a0.yt.attached THEN time ELSE @]
              ELSE a0
    IN  IF a1.v.present
        THEN [a1 EXCEPT
                !.log = Append(@, Back("video.currentTime", time, a.ra)),
                !.v.time = time,
                !.ev = Append(@, Ev("seeked", a.log[1].op))]
        ELSE a1

\* function getPosition()
getPosition(a) ==
    IF a.yt.obj /\ a.yt.api THEN a.yt.time
    ELSE IF a.v.present THEN a.v.time
    ELSE 0

\* function isPaused()
isPaused(a) ==
    IF a.yt.obj /\ a.yt.api THEN a.yt.state \in {"paused", "cued", "unstarted"}
    ELSE IF a.v.present THEN a.v.paused
    ELSE TRUE

\* playerContainer.innerHTML = '' : whatever player is in the container leaves
\* the document.  A removed media element is paused by the browser, and what
\* was queued for it is still delivered to its listeners; the frame of an
\* embedded player is gone with its pending state changes.
emptyContainer(a) ==
    LET frozen == [i \in 1..Len(a.ev) |->
                     IF a.ev[i].kind \in VideoEvents /\ a.ev[i].det = -1
                     THEN [a.ev[i] EXCEPT !.det = a.v.time] ELSE a.ev[i]]
        kept == SelectSeq(frozen, LAMBDA e : e.kind \in VideoEvents)
        ev1 == IF a.v.present /\ ~a.v.paused
               THEN Append(kept, [kind |-> "pause", det |-> a.v.time, by |-> a.log[1].op])
               ELSE kept
    IN  [a EXCEPT !.ev = ev1,
                  !.v = NoVideo,
                  !.yt.attached = FALSE]

\* function loadMedia(media), without its assignment to currentMedia;
\* ready is ytReady
loadMedia(a, media, ready) ==
    LET a0 == emptyContainer(a)
    IN  IF media.type = "youtube"
        THEN IF ready THEN [a0 EXCEPT !.yt = NewYT] ELSE a0
        ELSE IF media.type \in {"twitch_vod", "twitch_live"} THEN a0
        ELSE [a0 EXCEPT !.v = NewVideo]

\* function clearPlayer(), without its assignment to currentMedia
clearPlayer(a) == [emptyContainer(a) EXCEPT !.yt = NoYT]

\* the bundle of the current state, with a log that starts with the event
Bundle(e) == [yt |-> ytPlayer, v |-> video, ev |-> events, ra |-> isRemoteAction,
              ts |-> timeouts, log |-> <<e>>]

\* showToast(msg)
showToast(a, msg) == [a EXCEPT !.log = Append(@, Toast(msg))]

\* write a bundle back
Unbundle(a) ==
    /\ ytPlayer' = a.yt
    /\ video' = a.v
    /\ events' = a.ev
    /\ isRemoteAction' = a.ra
    /\ timeouts' = a.ts
    /\ log' = a.log
    /\ Len(a.ev) <= MaxEvents
    /\ Len(a.ts) <= MaxTimeouts

----------------------------------------------------------------------------
(* Timers, status line, sockets *)

\* clearInterval(h)
clearInterval(ivs, h) == {t \in ivs : t.id # h}

\* the handle setInterval returns: one no live timer has and no variable
\* still holds (the browser never hands out a handle twice)
FreshId(ivs, held) ==
    CHOOSE n \in 1..(Cardinality(ivs) + Cardinality(held) + 1) :
        /\ n \notin {t.id : t \in ivs}
        /\ n \notin held
        /\ \A m \in 1..(n - 1) : m \in {t.id : t \in ivs} \cup held

\* function startSyncIntervals(): [sync |-> new syncInterval, ivs |-> timers];
\* host is isHost, ping is pingInterval
startSyncIntervalsBothMut(ivs, sync, ping, host) ==
    LET id == FreshId(ivs, {ping, sync})
    IN  [sync |-> id,
         ivs |-> ivs \cup {[id |-> id, kind |-> IF host THEN "host" ELSE "poll"]}]
startSyncIntervals(ivs, sync, ping, host) ==
    LET ivs1 == clearInterval(ivs, sync)
        id == FreshId(ivs1, {ping})
    IN  [sync |-> id,
         ivs |-> ivs1 \cup {[id |-> id, kind |-> IF host THEN "host" ELSE "poll"]}]

\* socket?.readyState === WebSocket.OPEN
IsOpen == socket # 0 /\ readyState[socket] = "OPEN"

\* function setStatus(text, state)
setStatus(text, state) == [text |-> text, state |-> state]

\* function updateHostIndicator(): the status it leaves; host is the new isHost
updateHostIndicator(host) ==
    IF IsOpen
    THEN setStatus(IF host THEN "Connected (Host)" ELSE "Connected", "connected")
    ELSE status

\* socket.close(): the closing handshake starts; the close event comes later
closeSocket(rs, s) ==
    IF s # 0 /\ rs[s] \in {"CONNECTING", "OPEN"} THEN [rs EXCEPT ![s] = "CLOSING"]
    ELSE rs

\* the error event of a failed connection has run and its close event,
\* fired by the same task, is the next callback
CloseDue == \E s \in 1..Len(readyState) : readyState[s] = "FAILED"

----------------------------------------------------------------------------
(* Initial state: the script has run (lines 30-40, 84-90) *)

\* the room parameter of the page URL, when it matches /^[0-9A-Z]{6}$/i,
\* upper-cased
UrlRoomCodes == { <<"A", "B", "C", "1", "2", "3">> }

Init ==
    /\ roomInput \in UrlRoomCodes \cup GeneratedCodes
    /\ status = setStatus("", "disconnected")
    /\ socket = 0
    /\ readyState = <<>>
    /\ isRemoteAction = FALSE
    /\ lastSentSeek = 0
    /\ pingInterval = 0
    /\ syncInterval = 0
    /\ latency = 0
    /\ queue = <<>>
    /\ currentMedia = NoMedia
    /\ ytPlayer = NoYT
    /\ ytReady = FALSE
    /\ isHost = FALSE
    /\ video = NoVideo
    /\ events = <<>>
    /\ intervals = {}
    /\ timeouts = <<>>
    /\ pings = {}
    /\ log = <<>>

----------------------------------------------------------------------------
(* The room field and connect() *)

\* roomInput 'input' listener (line 93)
InputRoom(raw) ==
    /\ roomInput' = sanitizeRoom(raw)
    /\ log' = <<Evt("ui", "input", 0, FALSE)>>
    /\ UNCHANGED <<status, socket, readyState, isRemoteAction, lastSentSeek,
                   pingInterval, syncInterval, latency, queue, currentMedia,
                   ytPlayer, ytReady, isHost, video, events, intervals, timeouts,
                   pings>>

\* the room code connect() accepts
acceptsCode(code) == ~(Len(code) # 6)

\* function connect(), with roomInput.value being value
connect(value, e) ==
    LET code == trim(value)
    IN  IF ~acceptsCode(code)
        THEN /\ status' = setStatus("Enter 6-char code", "error")
             /\ log' = <<e, Status("Enter 6-char code", "error")>>
             /\ UNCHANGED <<socket, readyState, pings>>
        ELSE /\ Len(readyState) < MaxSockets
             /\ status' = setStatus("Connecting...", "disconnected")
             /\ socket' = Len(readyState) + 1
             /\ readyState' = Append(closeSocket(readyState, socket), "CONNECTING")
             /\ pings' = {}
             /\ log' = (IF socket # 0 THEN <<e, Sock("close", socket)>> ELSE <<e>>)
                       \o <<Status("Connecting...", "disconnected"),
                            Sock("new", Len(readyState) + 1)>>

\* joinBtn click, and the setTimeout(connect, 100) of the page load
Join ==
    /\ connect(roomInput, Evt("ui", "connect", 0, FALSE))
    /\ UNCHANGED <<roomInput, isRemoteAction, lastSentSeek, pingInterval,
                   syncInterval, latency, queue, currentMedia, ytPlayer, ytReady,
                   isHost, video, events, intervals, timeouts>>

\* newRoomBtn click: roomInput.value = generateCode(); connect()
NewRoom ==
    /\ \E code \in GeneratedCodes :
          /\ roomInput' = code
          /\ connect(code, Evt("ui", "connect", 0, FALSE))
    /\ UNCHANGED <<isRemoteAction, lastSentSeek, pingInterval, syncInterval,
                   latency, queue, currentMedia, ytPlayer, ytReady, isHost, video,
                   events, intervals, timeouts>>

----------------------------------------------------------------------------
(* Socket callbacks *)

\* socket.onopen
SocketOpen(s) ==
    /\ readyState[s] = "CONNECTING"
    /\ readyState' = [readyState EXCEPT ![s] = "OPEN"]
    /\ status' = setStatus("Connected", "connected")
    /\ LET id == FreshId(intervals, {syncInterval})
           open == socket # 0 /\ readyState'[socket] = "OPEN"
       IN  /\ pingInterval' = id
           /\ intervals' = intervals \cup {[id |-> id, kind |-> "ping"]}
           /\ open    \* send() on a socket that is not open throws
           /\ pings' = pings \cup {now}
           /\ log' = <<Evt("socket", "open", s, FALSE),
                       Status("Connected", "connected"),
                       Send("join", 0, isRemoteAction),
                       Send("ping", now, isRemoteAction)>>
    /\ UNCHANGED <<roomInput, socket, isRemoteAction, lastSentSeek, syncInterval,
                   latency, queue, currentMedia, ytPlayer, ytReady, isHost, video,
                   events, timeouts>>

\* socket.onclose, as a callback on the current state; e is the event
oncloseHostMut(e) ==
    /\ status' = setStatus("Disconnected", "disconnected")
    /\ intervals' = clearInterval(clearInterval(intervals, pingInterval), syncInterval)
    /\ isHost' = TRUE
    /\ log' = <<e, Status("Disconnected", "disconnected")>>
    /\ UNCHANGED <<roomInput, socket, isRemoteAction, lastSentSeek, pingInterval,
                   syncInterval, latency, queue, currentMedia, ytPlayer, ytReady,
                   video, events, timeouts, pings>>
onclose(e) ==
    /\ status' = setStatus("Disconnected", "disconnected")
    /\ intervals' = clearInterval(clearInterval(intervals, pingInterval), syncInterval)
    /\ isHost' = FALSE
    /\ log' = <<e, Status("Disconnected", "disconnected")>>
    /\ UNCHANGED <<roomInput, socket, isRemoteAction, lastSentSeek, pingInterval,
                   syncInterval, latency, queue, currentMedia, ytPlayer, ytReady,
                   video, events, timeouts, pings>>

\* the close event of a socket: the relay or the network closed it, or the
\* closing handshake that close() started is over
SocketClose(s) ==
    /\ readyState[s] \in {"CONNECTING", "OPEN", "CLOSING"}
    /\ readyState' = [readyState EXCEPT ![s] = "CLOSED"]
    /\ onclose(Evt("socket", "close", s, FALSE))

\* socket.onerror: the connection failed; the browser fires error and then
\* close from one task
SocketError(s) ==
    /\ readyState[s] \in {"CONNECTING", "OPEN", "CLOSING"}
    /\ readyState' = [readyState EXCEPT ![s] = "FAILED"]
    /\ status' = setStatus("Connection failed", "error")
    /\ log' = <<Evt("socket", "error", s, FALSE), Status("Connection failed", "error")>>
    /\ UNCHANGED <<roomInput, socket, isRemoteAction, lastSentSeek, pingInterval,
                   syncInterval, latency, queue, currentMedia, ytPlayer, ytReady,
                   isHost, video, events, intervals, timeouts, pings>>

\* the close event that follows an error event
CloseAfterError(s) ==
    /\ readyState[s] = "FAILED"
    /\ readyState' = [readyState EXCEPT ![s] = "CLOSED"]
    /\ onclose(Evt("socket", "close", s, FALSE))

----------------------------------------------------------------------------
(* Inbound frames: socket.onmessage = e => handleMessage(JSON.parse(e.data)).
   A message event is fired only at a socket whose readyState is OPEN. *)

\* isRemoteAction = true
setRemote(a) == [a EXCEPT !.ra = TRUE]

\* setTimeout(() => isRemoteAction = false, 100)
setTimeout(a) == [a EXCEPT !.ts = Append(@, now + SuppressDelay)]

\* case 'pong': latency = (Date.now() - msg.t) / 2, in 50 ms steps (two to a
\* clock step)
pongLatency(t) == (2 * (now - t)) \div 2

MsgPong(t) ==
    /\ IsOpen
    /\ latency' = pongLatency(t)
    /\ pings' = pings \ {t}
    /\ log' = <<Evt("msg", "pong", t, FALSE)>>
    /\ UNCHANGED <<roomInput, status, socket, readyState, isRemoteAction,
                   lastSentSeek, pingInterval, syncInterval, queue, currentMedia,
                   ytPlayer, ytReady, isHost, video, events, intervals, timeouts>>

\* case 'state'.  m = [queue, isHost, current, position, playing]; a frame
\* without a current item has current = NoMedia.
MsgState(m) ==
    /\ IsOpen
    /\ LET e == [k |-> "msg", op |-> "state", arg |-> m.position,
                 flag |-> m.playing, msg |-> m]
           t == startSyncIntervals(intervals, syncInterval, pingInterval, m.isHost)
           has == m.current # NoMedia
           a0 == Bundle(e)
           a1 == IF has THEN loadMedia(a0, m.current, ytReady) ELSE a0
           a2 == IF has /\ m.position > 0 THEN seekTo(a1, m.position) ELSE a1
           a3 == IF has /\ m.playing THEN playMedia(a2) ELSE a2
       IN  /\ queue' = m.queue
           /\ isHost' = m.isHost
           /\ status' = updateHostIndicator(m.isHost)
           /\ syncInterval' = t.sync
           /\ intervals' = t.ivs
           /\ currentMedia' = IF has THEN m.current ELSE currentMedia
           /\ Unbundle(a3)
    /\ UNCHANGED <<roomInput, socket, readyState, lastSentSeek, pingInterval,
                   latency, ytReady, pings>>

\* case 'host_update'
MsgHostUpdateToastAlwaysMut(h) ==
    /\ IsOpen
    /\ LET wasHost == isHost
           t == startSyncIntervals(intervals, syncInterval, pingInterval, h)
       IN  /\ isHost' = h
           /\ status' = updateHostIndicator(h)
           /\ IF wasHost # h
              THEN /\ syncInterval' = t.sync
                   /\ intervals' = t.ivs
              ELSE UNCHANGED <<syncInterval, intervals>>
           /\ log' = <<Evt("msg", "host_update", IF wasHost THEN 1 ELSE 0, h)>>
                     \o (IF h THEN <<Toast("You are now the host")>> ELSE <<>>)
    /\ UNCHANGED <<roomInput, socket, readyState, isRemoteAction, lastSentSeek,
                   pingInterval, latency, queue, currentMedia, ytPlayer, ytReady,
                   video, events, timeouts, pings>>
MsgHostUpdate(h) ==
    /\ IsOpen
    /\ LET wasHost == isHost
           t == startSyncIntervals(intervals, syncInterval, pingInterval, h)
       IN  /\ isHost' = h
           /\ status' = updateHostIndicator(h)
           /\ IF wasHost # h
              THEN /\ syncInterval' = t.sync
                   /\ intervals' = t.ivs
                   /\ log' = <<Evt("msg", "host_update", IF wasHost THEN 1 ELSE 0, h)>>
                             \o (IF h THEN <<Toast("You are now the host")>> ELSE <<>>)
              ELSE /\ UNCHANGED <<syncInterval, intervals>>
                   /\ log' = <<Evt("msg", "host_update", IF wasHost THEN 1 ELSE 0, h)>>
    /\ UNCHANGED <<roomInput, socket, readyState, isRemoteAction, lastSentSeek,
                   pingInterval, latency, queue, currentMedia, ytPlayer, ytReady,
                   video, events, timeouts, pings>>

\* case 'load'.  m = [queue, current]
MsgLoad(m) ==
    /\ IsOpen
    /\ LET e == [k |-> "msg", op |-> "load", arg |-> 0, flag |-> FALSE, msg |-> m]
           has == m.current # NoMedia
           a == IF has
                THEN showToast(loadMedia(Bundle(e), m.current, ytReady), "Now playing")
                ELSE showToast(clearPlayer(Bundle(e)), "Queue empty")
       IN  /\ queue' = m.queue
           /\ currentMedia' = IF has THEN m.current ELSE NoMedia
           /\ Unbundle(a)
    /\ UNCHANGED <<roomInput, status, socket, readyState, lastSentSeek,
                   pingInterval, syncInterval, latency, ytReady, isHost,
                   intervals, pings>>

\* case 'queue_update'
MsgQueueUpdate(q) ==
    /\ IsOpen
    /\ queue' = q
    /\ log' = <<Evt("msg", "queue_update", 0, FALSE)>>
    /\ UNCHANGED <<roomInput, status, socket, readyState, isRemoteAction,
                   lastSentSeek, pingInterval, syncInterval, latency,
                   currentMedia, ytPlayer, ytReady, isHost, video, events,
                   intervals, timeouts, pings>>

\* case 'play' (lines 301-305); lat is latency
remotePlayNoLatencyMut(a, position, lat) ==
    setTimeout(showToast(playMedia(seekTo(setRemote(a), position)), "Playing"))
remotePlay(a, position, lat) ==
    setTimeout(showToast(playMedia(seekTo(setRemote(a), position + lat)), "Playing"))

MsgPlay(position) ==
    /\ IsOpen
    /\ Unbundle(remotePlay(Bundle(Evt("msg", "play", position, FALSE)), position, latency))
    /\ UNCHANGED <<roomInput, status, socket, readyState, lastSentSeek,
                   pingInterval, syncInterval, latency, queue, currentMedia,
                   ytReady, isHost, intervals, pings>>

\* case 'pause' (lines 309-313)
remotePause(a, position) ==
    setTimeout(showToast(seekTo(pauseMedia(setRemote(a)), position), "Paused"))

MsgPause(position) ==
    /\ IsOpen
    /\ Unbundle(remotePause(Bundle(Evt("msg", "pause", position, FALSE)), position))
    /\ UNCHANGED <<roomInput, status, socket, readyState, lastSentSeek,
                   pingInterval, syncInterval, latency, queue, currentMedia,
                   ytReady, isHost, intervals, pings>>

\* Math.abs(getPosition() - msg.position) > SYNC_TOLERANCE
Abs(x) == IF x < 0 THEN -x ELSE x
driftExceedsMut(a, position) == Abs(getPosition(a) - position) >= SYNC_TOLERANCE
driftExceeds(a, position) == Abs(getPosition(a) - position) > SYNC_TOLERANCE

\* case 'seek' (lines 318-323)
remoteSeek(a, position) ==
    IF driftExceeds(a, position)
    THEN setTimeout(showToast(seekTo(setRemote(a), position), "Synced"))
    ELSE a

MsgSeek(position) ==
    /\ IsOpen
    /\ Unbundle(remoteSeek(Bundle(Evt("msg", "seek", position, FALSE)), position))
    /\ UNCHANGED <<roomInput, status, socket, readyState, lastSentSeek,
                   pingInterval, syncInterval, latency, queue, currentMedia,
                   ytReady, isHost, intervals, pings>>

\* the guard of case 'sync_response' (line 328); host is isHost, media is
\* currentMedia
syncAppliesMut(host, media) == media # NoMedia
syncApplies(host, media) == ~host /\ media # NoMedia

\* the position half of case 'sync_response' (lines 329-335)
syncPositionRelativeMut(a, position) ==
    IF driftExceeds(a, position)
    THEN setTimeout(showToast(seekTo(setRemote(a),
                                     position + (position - getPosition(a))),
                              "Synced to host"))
    ELSE a
syncPosition(a, position) ==
    IF driftExceeds(a, position)
    THEN setTimeout(showToast(seekTo(setRemote(a), position), "Synced to host"))
    ELSE a

\* the play-state half of case 'sync_response' (lines 337-345)
syncPlayStateBareMut(a, playing) ==
    IF playing /\ isPaused(a) THEN setTimeout(playMedia(a))
    ELSE IF ~playing /\ ~isPaused(a) THEN setTimeout(pauseMedia(a))
    ELSE a
syncPlayState(a, playing) ==
    IF playing /\ isPaused(a) THEN setTimeout(playMedia(setRemote(a)))
    ELSE IF ~playing /\ ~isPaused(a) THEN setTimeout(pauseMedia(setRemote(a)))
    ELSE a

\* case 'sync_response'
MsgSyncResponse(position, playing) ==
    /\ IsOpen
    /\ LET a0 == Bundle(Evt("msg", "sync_response", position, playing))
       IN  IF syncApplies(isHost, currentMedia)
           THEN Unbundle(syncPlayState(syncPosition(a0, position), playing))
           ELSE Unbundle(a0)
    /\ UNCHANGED <<roomInput, status, socket, readyState, lastSentSeek,
                   pingInterval, syncInterval, latency, queue, currentMedia,
                   ytReady, isHost, intervals, pings>>

\* cases 'viewers', 'chat', 'system': the page shows them, nothing else
MsgDisplay(kind) ==
    /\ IsOpen
    /\ log' = <<Evt("msg", kind, 0, FALSE)>>
    /\ UNCHANGED <<roomInput, status, socket, readyState, isRemoteAction,
                   lastSentSeek, pingInterval, syncInterval, latency, queue,
                   currentMedia, ytPlayer, ytReady, isHost, video, events,
                   intervals, timeouts, pings>>

\* JSON.parse(e.data) throws on a frame that is not JSON: the exception leaves
\* the onmessage callback before handleMessage is called, and what the
\* callbacks share is as it was
parseThrowsResetMut(a) == clearPlayer(setRemote(a))
parseThrows(a) == a

\* socket.onmessage on a frame that fails to decode (line 254)
MsgMalformed ==
    /\ IsOpen
    /\ Unbundle(parseThrows(Bundle(Evt("msg", "malformed", 0, FALSE))))
    /\ UNCHANGED <<roomInput, status, socket, readyState, lastSentSeek,
                   pingInterval, syncInterval, latency, queue, currentMedia,
                   ytReady, isHost, intervals, pings>>

----------------------------------------------------------------------------
(* Timer callbacks *)

\* the heartbeat callback (lines 240-242)
PingTimer(t) ==
    /\ t \in intervals /\ t.kind = "ping"
    /\ IF IsOpen
       THEN /\ pings' = pings \cup {now}
            /\ log' = <<Evt("timer", t.kind, t.id, FALSE), Send("ping", now, isRemoteAction)>>
       ELSE /\ UNCHANGED pings
            /\ log' = <<Evt("timer", t.kind, t.id, FALSE)>>
    /\ UNCHANGED <<roomInput, status, socket, readyState, isRemoteAction,
                   lastSentSeek, pingInterval, syncInterval, latency, queue,
                   currentMedia, ytPlayer, ytReady, isHost, video, events,
                   intervals, timeouts>>

\* the host-reporting callback (lines 207-214)
HostReport(t) ==
    /\ t \in intervals /\ t.kind = "host"
    /\ log' = IF IsOpen /\ currentMedia # NoMedia
              THEN <<Evt("timer", t.kind, t.id, FALSE),
                     Send("host_position", getPosition(Bundle(Evt("timer", t.kind, t.id, FALSE))), isRemoteAction)>>
              ELSE <<Evt("timer", t.kind, t.id, FALSE)>>
    /\ UNCHANGED <<roomInput, status, socket, readyState, isRemoteAction,
                   lastSentSeek, pingInterval, syncInterval, latency, queue,
                   currentMedia, ytPlayer, ytReady, isHost, video, events,
                   intervals, timeouts, pings>>

\* the sync-polling callback (lines 217-221)
SyncPoll(t) ==
    /\ t \in intervals /\ t.kind = "poll"
    /\ log' = IF IsOpen /\ currentMedia # NoMedia
              THEN <<Evt("timer", t.kind, t.id, FALSE), Send("sync_request", 0, isRemoteAction)>>
              ELSE <<Evt("timer", t.kind, t.id, FALSE)>>
    /\ UNCHANGED <<roomInput, status, socket, readyState, isRemoteAction,
                   lastSentSeek, pingInterval, syncInterval, latency, queue,
                   currentMedia, ytPlayer, ytReady, isHost, video, events,
                   intervals, timeouts, pings>>

\* () => isRemoteAction = false, at its due time
ClearRemote ==
    /\ timeouts # <<>> /\ Head(timeouts) <= now
    /\ timeouts' = Tail(timeouts)
    /\ isRemoteAction' = FALSE
    /\ log' = <<Evt("timer", "timeout", 0, FALSE)>>
    /\ UNCHANGED <<roomInput, status, socket, readyState, lastSentSeek,
                   pingInterval, syncInterval, latency, queue, currentMedia,
                   ytPlayer, ytReady, isHost, video, events, intervals, pings>>

----------------------------------------------------------------------------
(* Notifications of the players *)

RemoveAt(q, i) == SubSeq(q, 1, i - 1) \o SubSeq(q, i + 1, Len(q))

\* the conditions under which the listeners of the video element send
forwardsPlayAlwaysMut(ra, open) == open
forwardsPlay(ra, open) == ~ra /\ open
forwardsSeekAtLeastMut(ra, open, elapsed) == ~ra /\ open /\ elapsed >= SeekDebounce
forwardsSeek(ra, open, elapsed) == ~ra /\ open /\ elapsed > SeekDebounce
forwardsEnded(ra, open) == open

\* the 'play', 'pause', 'seeked' and 'ended' listeners (lines 388-405) and
\* onYTStateChange (lines 409-418), on the i-th pending notification
Notify(i) ==
    /\ i \in 1..Len(events)
    /\ LET e == events[i]
           pos == IF e.kind \in YTEvents THEN ytPlayer.time
                  ELSE IF e.det = -1 THEN video.time ELSE e.det
           ev == [k |-> "notify", op |-> e.kind, arg |-> pos, flag |-> isRemoteAction,
                  by |-> e.by]
           fwd == CASE e.kind \in {"play", "pause"} -> forwardsPlay(isRemoteAction, IsOpen)
                    [] e.kind = "seeked" ->
                         forwardsSeek(isRemoteAction, IsOpen, now - lastSentSeek)
                    [] e.kind = "ended" -> forwardsEnded(isRemoteAction, IsOpen)
                    [] OTHER -> ~(isRemoteAction \/ ~IsOpen)
           type == CASE e.kind = "seeked" -> "seek"
                     [] e.kind = "yt_playing" -> "play"
                     [] e.kind = "yt_paused" -> "pause"
                     [] e.kind = "yt_ended" -> "ended"
                     [] OTHER -> e.kind
       IN  /\ events' = RemoveAt(events, i)
           /\ lastSentSeek' = IF e.kind = "seeked" /\ fwd THEN now ELSE lastSentSeek
           /\ log' = IF fwd
                     THEN <<ev, Send(type, IF type = "ended" THEN 0 ELSE pos,
                                     isRemoteAction)>>
                     ELSE <<ev>>
    /\ UNCHANGED <<roomInput, status, socket, readyState, isRemoteAction,
                   pingInterval, syncInterval, latency, queue, currentMedia,
                   ytPlayer, ytReady, isHost, video, intervals, timeouts, pings>>

\* window.onYouTubeIframeAPIReady (line 53)
YTApiReady ==
    /\ ~ytReady
    /\ ytReady' = TRUE
    /\ log' = <<Evt("ui", "yt_api", 0, FALSE)>>
    /\ UNCHANGED <<roomInput, status, socket, readyState, isRemoteAction,
                   lastSentSeek, pingInterval, syncInterval, latency, queue,
                   currentMedia, ytPlayer, isHost, video, events, intervals,
                   timeouts, pings>>

----------------------------------------------------------------------------
(* The environment: the viewer at the controls of the players, the provider's
   player becoming ready, playback, the clock.  No callback of the script runs
   in these steps; they leave the log empty. *)

EnvUnchanged == <<roomInput, status, socket, readyState, isRemoteAction,
                  lastSentSeek, pingInterval, syncInterval, latency, queue,
                  currentMedia, ytReady, isHost, intervals, timeouts, pings>>

\* the viewer presses play on the video element (video.controls = true)
UserPlay ==
    /\ video.present /\ video.paused
    /\ video' = [video EXCEPT !.paused = FALSE]
    /\ events' = Append(events, Ev("play", "user"))
    /\ Len(events') <= MaxEvents
    /\ log' = <<>>
    /\ UNCHANGED <<EnvUnchanged, ytPlayer>>

\* the viewer presses pause
UserPause ==
    /\ video.present /\ ~video.paused
    /\ video' = [video EXCEPT !.paused = TRUE]
    /\ events' = Append(events, Ev("pause", "user"))
    /\ Len(events') <= MaxEvents
    /\ log' = <<>>
    /\ UNCHANGED <<EnvUnchanged, ytPlayer>>

\* the viewer drags the position to p
UserSeek(p) ==
    /\ video.present
    /\ video' = [video EXCEPT !.time = p]
    /\ events' = Append(events, Ev("seeked", "user"))
    /\ Len(events') <= MaxEvents
    /\ log' = <<>>
    /\ UNCHANGED <<EnvUnchanged, ytPlayer>>

\* playback reaches the end of the file: the element pauses and notifies
\* 'pause' and 'ended'
MediaEnded ==
    /\ video.present /\ ~video.paused
    /\ video' = [video EXCEPT !.paused = TRUE]
    /\ events' = events \o <<Ev("pause", "user"), Ev("ended", "user")>>
    /\ Len(events') <= MaxEvents
    /\ log' = <<>>
    /\ UNCHANGED <<EnvUnchanged, ytPlayer>>

\* the provider's player becomes ready: its methods exist from now on
YTPlayerReady ==
    /\ ytPlayer.obj /\ ytPlayer.attached /\ ~ytPlayer.api
    /\ ytPlayer' = [ytPlayer EXCEPT !.api = TRUE]
    /\ log' = <<>>
    /\ UNCHANGED <<EnvUnchanged, video, events>>

\* the viewer at the controls of the provider's player, or its playback ending
YTUser(st) ==
    /\ ytPlayer.obj /\ ytPlayer.attached /\ ytPlayer.api
    /\ ytPlayer.state # st
    /\ st = "paused" => ytPlayer.state = "playing"
    /\ st = "ended" => ytPlayer.state = "playing"
    /\ ytPlayer' = [ytPlayer EXCEPT !.state = st]
    /\ events' = Append(events, Ev(CASE st = "playing" -> "yt_playing"
                                     [] st = "paused" -> "yt_paused"
                                     [] OTHER -> "yt_ended", "user"))
    /\ Len(events') <= MaxEvents
    /\ log' = <<>>
    /\ UNCHANGED <<EnvUnchanged, video>>

\* a timestamp, or a due time, one clock step later
Older(t) == IF t > 0 THEN t - 1 ELSE 0

\* 100 ms pass.  A due timeout runs before the clock moves on.
Tick ==
    /\ (IF timeouts = <<>> THEN TRUE ELSE Head(timeouts) > now)
    /\ timeouts' = [i \in 1..Len(timeouts) |-> Older(timeouts[i])]
    /\ lastSentSeek' = Older(lastSentSeek)
    /\ pings' = {Older(t) : t \in pings}
    /\ log' = <<>>
    /\ UNCHANGED <<roomInput, status, socket, readyState, isRemoteAction,
                   pingInterval, syncInterval, latency, queue, currentMedia,
                   ytPlayer, ytReady, isHost, video, events, intervals>>

----------------------------------------------------------------------------
(* What the relay and the viewer may send *)

\* positions the relay asserts: 0 s, 3.0 s, 3.1 s
Positions == {0, 60, 62}

Items == {Media("direct", 1), Media("youtube", 1), Media("twitch_vod", 1),
          Media("twitch_live", 1)}

\* the queue the relay sends along with a current item: its head is the item
QueueOf(cur) == IF cur = NoMedia THEN <<>> ELSE <<cur>>

StateMsgs ==
    { [queue |-> QueueOf(c), isHost |-> h, current |-> c, position |-> p,
       playing |-> pl] :
         h \in BOOLEAN, c \in Items \cup {NoMedia}, p \in Positions, pl \in BOOLEAN }

LoadMsgs == { [queue |-> QueueOf(c), current |-> c] : c \in Items \cup {NoMedia} }

Sockets == 1..Len(readyState)

DirectItem == Media("direct", 1)

\* the page was opened from an invite link
InitUrl == Init /\ roomInput \in UrlRoomCodes

----------------------------------------------------------------------------
(* The room field and connect(): what the viewer types, the buttons, the
   sockets. *)

RoomNext ==
    \/ \E raw \in RawRoomInputs : InputRoom(raw)
    \/ Join
    \/ NewRoom
    \/ \E s \in Sockets : SocketOpen(s)
    \/ \E s \in Sockets : SocketClose(s)

SpecRoom == Init /\ [][RoomNext]_vars

----------------------------------------------------------------------------
(* Connections, role and cadence: connects and reconnects, the socket events,
   the frames that set the role or the current item, the interval timers.
   The relay is taken to send its first load after a snapshot. *)

RoleStateMsgs ==
    { [queue |-> QueueOf(c), isHost |-> h, current |-> c, position |-> 0,
       playing |-> FALSE] : h \in BOOLEAN, c \in {NoMedia, DirectItem} }

RoleLoadMsgs == { [queue |-> QueueOf(c), current |-> c] : c \in {NoMedia, DirectItem} }

\* after a socket's error event its close event is the next callback to run
RoleNext ==
    \/ \E s \in Sockets : CloseAfterError(s)
    \/ ~CloseDue /\ Join
    \/ ~CloseDue /\ \E s \in Sockets : SocketOpen(s)
    \/ ~CloseDue /\ \E s \in Sockets : SocketClose(s)
    \/ ~CloseDue /\ \E s \in Sockets : SocketError(s)
    \/ ~CloseDue /\ \E m \in RoleStateMsgs : MsgState(m)
    \/ ~CloseDue /\ \E h \in BOOLEAN : MsgHostUpdate(h)
    \/ ~CloseDue /\ syncInterval # 0 /\ \E m \in RoleLoadMsgs : MsgLoad(m)
    \/ ~CloseDue /\ \E t \in intervals : PingTimer(t)
    \/ ~CloseDue /\ \E t \in intervals : HostReport(t)
    \/ ~CloseDue /\ \E t \in intervals : SyncPoll(t)

SpecRole == InitUrl /\ [][RoleNext]_vars

----------------------------------------------------------------------------
(* Echo suppression: one connection, a direct-file item, remote instructions,
   the viewer at the controls, the notifications of the element, the clock. *)

EchoPositions == {0, 62}

EchoStateMsg == [queue |-> QueueOf(DirectItem), isHost |-> FALSE,
                 current |-> DirectItem, position |-> 0, playing |-> FALSE]

EchoNext ==
    \/ socket = 0 /\ Join
    \/ \E s \in Sockets : SocketOpen(s)
    \/ \E s \in Sockets : SocketClose(s)
    \/ MsgState(EchoStateMsg)
    \/ \E p \in EchoPositions : MsgPlay(p)
    \/ \E p \in EchoPositions : MsgPause(p)
    \/ \E p \in EchoPositions : MsgSeek(p)
    \/ ClearRemote
    \/ \E i \in 1..Len(events) : Notify(i)
    \/ UserPlay
    \/ UserPause
    \/ \E p \in EchoPositions : UserSeek(p)
    \/ MediaEnded
    \/ Tick

SpecEcho == InitUrl /\ [][EchoNext]_vars

----------------------------------------------------------------------------
(* Drift correction: one connection, the heartbeat echo, the frames that
   assert a position, against a direct-file item. *)

DriftStateMsgs ==
    { [queue |-> QueueOf(DirectItem), isHost |-> h, current |-> DirectItem,
       position |-> 0, playing |-> FALSE] : h \in BOOLEAN }

\* the element's notifications are delivered before the next frame arrives
DriftNext ==
    \/ events # <<>> /\ Notify(1)
    \/ events = <<>> /\ socket = 0 /\ Join
    \/ events = <<>> /\ \E s \in Sockets : SocketOpen(s)
    \/ events = <<>> /\ \E t \in pings : MsgPong(t)
    \/ events = <<>> /\ \E m \in DriftStateMsgs : MsgState(m)
    \/ events = <<>> /\ MsgLoad([queue |-> <<>>, current |-> NoMedia])
    \/ events = <<>> /\ \E p \in Positions : MsgPlay(p)
    \/ events = <<>> /\ \E p \in Positions : MsgPause(p)
    \/ events = <<>> /\ \E p \in Positions : MsgSeek(p)
    \/ events = <<>> /\ \E p \in Positions, pl \in BOOLEAN : MsgSyncResponse(p, pl)
    \/ events = <<>> /\ ClearRemote
    \/ events = <<>> /\ Tick

SpecDrift == InitUrl /\ [][DriftNext]_vars

----------------------------------------------------------------------------
(* The adapter over the four backends: one connection, items of every type
   loaded one after another, the provider API and its player becoming ready,
   the frames that drive the adapter, frames that fail to decode. *)

BackendPositions == {0, 62}

BackendStateMsgs ==
    { [queue |-> QueueOf(c), isHost |-> FALSE, current |-> c, position |-> 0,
       playing |-> FALSE] : c \in Items }

\* the players' notifications are delivered before the next frame arrives
BackendNext ==
    \/ events # <<>> /\ Notify(1)
    \/ events = <<>> /\ socket = 0 /\ Join
    \/ events = <<>> /\ \E s \in Sockets : SocketOpen(s)
    \/ events = <<>> /\ YTApiReady
    \/ events = <<>> /\ YTPlayerReady
    \/ events = <<>> /\ \E m \in BackendStateMsgs : MsgState(m)
    \/ events = <<>> /\ \E m \in LoadMsgs : MsgLoad(m)
    \/ events = <<>> /\ \E p \in BackendPositions : MsgPlay(p)
    \/ events = <<>> /\ \E p \in BackendPositions : MsgPause(p)
    \/ events = <<>> /\ \E p \in BackendPositions : MsgSeek(p)
    \/ events = <<>> /\ \E p \in BackendPositions, pl \in BOOLEAN :
                            MsgSyncResponse(p, pl)
    \/ events = <<>> /\ MsgMalformed
    \/ events = <<>> /\ ClearRemote
    \/ events = <<>> /\ Tick

SpecBackend == InitUrl /\ [][BackendNext]_vars

----------------------------------------------------------------------------
(* Snapshots that move the player: one connection, state frames for a
   direct-file item that assert a position and a play state, a remote pause,
   the notifications of the element, the clock. *)

SnapshotMsgs ==
    { [queue |-> QueueOf(DirectItem), isHost |-> FALSE, current |-> DirectItem,
       position |-> p, playing |-> pl] : p \in EchoPositions, pl \in BOOLEAN }

SnapshotNext ==
    \/ socket = 0 /\ Join
    \/ \E s \in Sockets : SocketOpen(s)
    \/ \E m \in SnapshotMsgs : MsgState(m)
    \/ \E p \in EchoPositions : MsgPause(p)
    \/ ClearRemote
    \/ \E i \in 1..Len(events) : Notify(i)
    \/ Tick

SpecSnapshot == InitUrl /\ [][SnapshotNext]_vars

----------------------------------------------------------------------------
(* Everything together *)

Callbacks ==
    \/ \E raw \in RawRoomInputs : InputRoom(raw)
    \/ Join
    \/ NewRoom
    \/ \E s \in Sockets : SocketOpen(s)
    \/ \E s \in Sockets : SocketClose(s)
    \/ \E s \in Sockets : SocketError(s)
    \/ \E t \in pings : MsgPong(t)
    \/ \E m \in StateMsgs : MsgState(m)
    \/ \E h \in BOOLEAN : MsgHostUpdate(h)
    \/ \E m \in LoadMsgs : MsgLoad(m)
    \/ \E c \in Items : MsgQueueUpdate(queue \o <<c>>) /\ Len(queue) < 2
    \/ \E p \in Positions : MsgPlay(p)
    \/ \E p \in Positions : MsgPause(p)
    \/ \E p \in Positions : MsgSeek(p)
    \/ \E p \in Positions, pl \in BOOLEAN : MsgSyncResponse(p, pl)
    \/ \E kind \in {"viewers", "chat", "system"} : MsgDisplay(kind)
    \/ MsgMalformed
    \/ \E t \in intervals : PingTimer(t)
    \/ \E t \in intervals : HostReport(t)
    \/ \E t \in intervals : SyncPoll(t)
    \/ ClearRemote
    \/ \E i \in 1..Len(events) : Notify(i)
    \/ YTApiReady

Environment ==
    \/ UserPlay
    \/ UserPause
    \/ \E p \in Positions : UserSeek(p)
    \/ MediaEnded
    \/ YTPlayerReady
    \/ \E st \in {"playing", "paused", "ended"} : YTUser(st)
    \/ Tick

Next ==
    \/ CloseDue /\ \E s \in Sockets : CloseAfterError(s)
    \/ ~CloseDue /\ Callbacks
    \/ ~CloseDue /\ Environment

Spec == Init /\ [][Next]_vars

----------------------------------------------------------------------------
(* Properties *)

\* the last callback handled event op of category k
Handled(k, op) == log # <<>> /\ log[1].k = k /\ log[1].op = op

\* the adapter calls, and the frames sent, by the last callback
Calls(l) == SelectSeq(l, LAMBDA e : e.k = "call")
Sent(l) == SelectSeq(l, LAMBDA e : e.k = "send")

\* the live cadence timers
Cadence == {t \in intervals : t.kind \in {"host", "poll"}}

\* C1: the 'play' notification that a remote play caused is never forwarded
\* as an outbound play, whenever it is delivered.
C1_RemotePlayNeverEchoed ==
    (Handled("notify", "play") /\ log[1].by = "play") => Sent(log) = <<>>

\* C2: at most one cadence timer is live and its kind matches the role flag:
\* a host-reporting timer only while isHost, a polling timer only while not.
C2_OneCadenceMatchingRole ==
    /\ Cardinality(Cadence) <= 1
    /\ \A t \in Cadence : (t.kind = "host") = isHost

\* C2 witness: a host_update has just turned a host into a non-host and the
\* polling timer is the one live cadence timer
C2_Witness ==
    /\ Handled("msg", "host_update") /\ log[1].arg = 1 /\ ~log[1].flag
    /\ ~isHost
    /\ Cadence = {[id |-> syncInterval, kind |-> "poll"]}
    /\ Len(readyState) = 2

\* C3: whenever the channel is open and a current item is loaded, a cadence
\* timer is running.
C3_CadenceWhileConnected ==
    (IsOpen /\ currentMedia # NoMedia) => Cadence # {}

\* the position and the paused state the adapter reports in the current state
LocalPosition == getPosition([yt |-> ytPlayer, v |-> video])
LocalPaused == isPaused([yt |-> ytPlayer, v |-> video])

\* the player state, the suppression flag and its timeouts are left alone
PlaybackUntouched ==
    UNCHANGED <<video, ytPlayer, events, isRemoteAction, timeouts>>

\* C4: on an inbound seek, a drift of at most 3.0 s issues no seek and leaves
\* position and suppression flag unchanged; a drift of more than 3.0 s issues
\* exactly one seek, to the asserted position, with the suppression flag set
\* and a timeout armed that clears the flag 100 ms later.
C4_RemoteSeek ==
    /\ [][ (log' # <<>> /\ log'[1].k = "msg" /\ log'[1].op = "seek") =>
             IF Abs(LocalPosition - log'[1].arg) <= SYNC_TOLERANCE
             THEN Calls(log') = <<>> /\ PlaybackUntouched
             ELSE /\ Calls(log') = <<Call("seekTo", log'[1].arg, TRUE)>>
                  /\ video.present => video'.time = log'[1].arg
                  /\ isRemoteAction'
                  /\ timeouts' = Append(timeouts, now + SuppressDelay) ]_vars
    /\ [][ (log' # <<>> /\ log'[1].k = "timer" /\ log'[1].op = "timeout") =>
             (timeouts # <<>> /\ Head(timeouts) = now /\ ~isRemoteAction') ]_vars
    /\ [](isRemoteAction =>
             (timeouts # <<>> /\ timeouts[Len(timeouts)] \in {now, now + SuppressDelay}))

\* C4 witness: a seek frame with a drift above the tolerance has been applied
C4_Witness ==
    /\ Handled("msg", "seek")
    /\ Calls(log) = <<Call("seekTo", 62, TRUE)>>
    /\ video.present /\ video.time = 62
    /\ isRemoteAction

\* C5: on an inbound play the adapter receives seekTo(position + L) and then
\* play(), where L is the latency estimate: half the round trip of the last
\* echoed heartbeat.  (latency counts 50 ms steps, the clock 100 ms steps.)
C5_RemotePlayCompensated ==
    /\ [](Handled("msg", "play") =>
            Calls(log) = <<Call("seekTo", log[1].arg + latency, TRUE),
                           Call("play", 0, TRUE)>>)
    /\ [][ (log' # <<>> /\ log'[1].k = "msg" /\ log'[1].op = "pong") =>
             2 * (50 * latency') = 100 * (now - log'[1].arg) ]_vars

\* C5 witness: position 3.1 s, latency 0.2 s (a round trip of 400 ms)
C5_Witness ==
    /\ Handled("msg", "play")
    /\ latency = 4
    /\ log[1].arg = 62
    /\ video.present /\ video.time = 66 /\ ~video.paused

\* what case 'sync_response' is to call, given the state before it
SyncCalls(position, playing) ==
    (IF Abs(LocalPosition - position) > SYNC_TOLERANCE
     THEN <<Call("seekTo", position, TRUE)>> ELSE <<>>)
    \o (IF playing /\ LocalPaused THEN <<Call("play", 0, TRUE)>>
        ELSE IF ~playing /\ ~LocalPaused THEN <<Call("pause", 0, TRUE)>>
        ELSE <<>>)

\* C6: a sync_response handled by a non-host with a current item seeks to the
\* asserted position iff the drift exceeds 3.0 s, and independently plays iff
\* asserted playing while locally paused, pauses iff asserted paused while
\* locally playing; every call is made with the suppression flag set; with the
\* drift within tolerance and the playing state matching nothing changes.
C6_SyncResponse ==
    [][ (/\ log' # <<>> /\ log'[1].k = "msg" /\ log'[1].op = "sync_response"
         /\ ~isHost /\ currentMedia # NoMedia) =>
          /\ Calls(log') = SyncCalls(log'[1].arg, log'[1].flag)
          /\ Calls(log') = <<>> => PlaybackUntouched
          /\ Calls(log') # <<>> => isRemoteAction' ]_vars

\* C6 witness: drift above tolerance, local playing, asserted paused: seek and
\* pause, both under suppression
C6_Witness ==
    /\ Handled("msg", "sync_response")
    /\ Calls(log) = <<Call("seekTo", 62, TRUE), Call("pause", 0, TRUE)>>
    /\ video.present /\ video.time = 62 /\ video.paused

\* C7: a sync_response received while host, or with no current item, issues
\* no adapter call and leaves suppression flag, role, cadence and latency
\* unchanged.
C7_SyncResponseIgnored ==
    [][ (/\ log' # <<>> /\ log'[1].k = "msg" /\ log'[1].op = "sync_response"
         /\ (isHost \/ currentMedia = NoMedia)) =>
          /\ Calls(log') = <<>>
          /\ PlaybackUntouched
          /\ UNCHANGED <<isHost, syncInterval, intervals, latency>> ]_vars

\* C7 witness: a host ignored a sync_response that asserts a position more
\* than 3.0 s from its own and the opposite playing state
C7_Witness ==
    /\ Handled("msg", "sync_response")
    /\ isHost /\ currentMedia # NoMedia /\ video.present
    /\ Abs(LocalPosition - log[1].arg) > SYNC_TOLERANCE
    /\ log[1].flag = LocalPaused
    /\ Len(log) = 1

\* C8 as claimed: while the suppression flag is set no notification of the
\* direct-file element (play, pause, seek, end of media) produces an outbound
\* frame; while it is clear and the channel open, play and pause are forwarded.
C8_NoForwardWhileSuppressed ==
    /\ (log # <<>> /\ log[1].k = "notify" /\ log[1].op \in VideoEvents /\ log[1].flag)
          => Sent(log) = <<>>
    /\ (log # <<>> /\ log[1].k = "notify" /\ log[1].op \in {"play", "pause"}
        /\ ~log[1].flag /\ IsOpen)
          => Sent(log) = <<Send(log[1].op, log[1].arg, FALSE)>>

\* C8 amended: while the suppression flag is set no play, pause or seek
\* notification of the direct-file element produces an outbound frame; while
\* it is clear and the channel open, play and pause are forwarded; the end of
\* media is forwarded whenever the channel is open, flag set or not.
C8_SuppressionCoversPlayPauseSeek ==
    /\ (log # <<>> /\ log[1].k = "notify" /\ log[1].op \in {"play", "pause", "seeked"}
        /\ log[1].flag)
          => Sent(log) = <<>>
    /\ (log # <<>> /\ log[1].k = "notify" /\ log[1].op \in {"play", "pause"}
        /\ ~log[1].flag /\ IsOpen)
          => Sent(log) = <<Send(log[1].op, log[1].arg, FALSE)>>
    /\ (Handled("notify", "ended") /\ IsOpen)
          => Sent(log) = <<Send("ended", 0, log[1].flag)>>

\* C8 witness: a play notification arrived on an open channel while the flag
\* was set and nothing was sent
C8_Witness ==
    /\ Handled("notify", "play")
    /\ log[1].flag /\ isRemoteAction /\ IsOpen
    /\ Sent(log) = <<>>

\* a seeked notification is being handled with the flag clear and the channel
\* open
SeekedStep ==
    /\ log' # <<>> /\ log'[1].k = "notify" /\ log'[1].op = "seeked"
    /\ ~isRemoteAction /\ IsOpen

\* C9 as claimed: with the flag clear and the channel open a local seek is
\* forwarded exactly when at least 300 ms have passed since the previous
\* forwarded seek.
C9_SeekForwardedAtLeast300 ==
    [][ SeekedStep =>
          ((Sent(log') # <<>>) <=> (now - lastSentSeek >= SeekDebounce)) ]_vars

\* C9 amended: with the flag clear and the channel open a local seek is
\* forwarded exactly when more than 300 ms have passed since the previous
\* forwarded seek (a seek exactly 300 ms after it is dropped); a forwarded seek
\* becomes the previous forwarded seek, so any two are more than 300 ms apart.
C9_SeekForwardedAfter300 ==
    [][ SeekedStep =>
          /\ (Sent(log') # <<>>) <=> (now - lastSentSeek > SeekDebounce)
          /\ Sent(log') # <<>> =>
                (Sent(log') = <<Send("seek", log'[1].arg, FALSE)>> /\ lastSentSeek' = now)
          /\ Sent(log') = <<>> => lastSentSeek' = lastSentSeek ]_vars

\* C9 witness: a seek exactly 300 ms after a forwarded one was dropped with
\* the flag clear and the channel open
C9_Witness ==
    /\ Handled("notify", "seeked")
    /\ ~log[1].flag /\ ~isRemoteAction /\ IsOpen
    /\ Sent(log) = <<>>
    /\ now - lastSentSeek = SeekDebounce

\* C10: connect() with a room code that is not six characters of 0-9 and A-Z
\* shows an error status and creates no socket.
C10_BadRoomCodeRejected ==
    (Handled("ui", "connect") /\ ~ValidRoomCode(roomInput)) =>
        /\ status = setStatus("Enter 6-char code", "error")
        /\ \A i \in 1..Len(log) : log[i].k # "socket"

\* C10 witness: connect() was called with a five-character code and rejected
\* while no socket existed
C10_Witness ==
    /\ Handled("ui", "connect")
    /\ Len(roomInput) = 5
    /\ status.state = "error"
    /\ socket = 0 /\ readyState = <<>>

----------------------------------------------------------------------------
(* Sessions, role and timers *)

\* the live timers of one kind
Heartbeats == {t \in intervals : t.kind = "ping"}

\* C11: when connect() has created a channel in place of an existing one, no
\* timer armed under the previous channel (heartbeat or cadence) is live.
C11_TimersCancelledBeforeNewChannel ==
    (Handled("ui", "connect")
     /\ \E i \in 1..Len(log) : log[i].k = "socket" /\ log[i].op = "new" /\ log[i].arg > 1)
        => intervals = {}

\* C12: immediately after the close event of a channel, and likewise after
\* its error event, no heartbeat or cadence timer is live and the role flag
\* is non-host.
C12_TeardownOnCloseOrError ==
    (log # <<>> /\ log[1].k = "socket" /\ log[1].op \in {"close", "error"})
        => (intervals = {} /\ ~isHost)

\* C14: after a state frame is handled the queue, the role flag and the
\* current item are those of the frame; the current item is null when the
\* frame carries none.
C14_SnapshotReplacedWholesale ==
    Handled("msg", "state") =>
        /\ queue = log[1].msg.queue
        /\ isHost = log[1].msg.isHost
        /\ currentMedia = log[1].msg.current

\* a state or host_update frame is being handled
RoleFrame(op) == log' # <<>> /\ log'[1].k = "msg" /\ log'[1].op = op

HostToasts(l) ==
    Len(SelectSeq(l, LAMBDA x : x.k = "toast" /\ x.op = "You are now the host"))

CadenceOf(host) == {[id |-> syncInterval', kind |-> IF host THEN "host" ELSE "poll"]}

\* C16 as claimed: a state or host_update frame that takes the role flag from
\* non-host to host raises exactly one 'You are now the host' notification;
\* one that leaves the role unchanged raises none and leaves the cadence
\* timer as it is.
C16_EveryPromotionNotified ==
    [][ (RoleFrame("state") \/ RoleFrame("host_update")) =>
          /\ (~isHost /\ isHost') => HostToasts(log') = 1
          /\ (isHost' = isHost) =>
                (HostToasts(log') = 0 /\ UNCHANGED <<syncInterval, intervals>>) ]_vars

\* C16 amended: a host_update frame that takes the role flag from non-host to
\* host raises exactly one 'You are now the host' notification and arms the
\* host-reporting timer; a host_update that leaves the role unchanged raises
\* none and leaves the cadence timer as it is; a state frame raises no such
\* notification, whatever the role before, and leaves exactly the cadence
\* timer of the role it asserts.
C16_PromotionByHostUpdateNotified ==
    [][ /\ RoleFrame("host_update") =>
              /\ (~isHost /\ isHost') =>
                    (HostToasts(log') = 1 /\ Cadence' = CadenceOf(TRUE))
              /\ (isHost /\ ~isHost') =>
                    (HostToasts(log') = 0 /\ Cadence' = CadenceOf(FALSE))
              /\ (isHost' = isHost) =>
                    (HostToasts(log') = 0 /\ UNCHANGED <<syncInterval, intervals>>)
        /\ RoleFrame("state") =>
              (HostToasts(log') = 0 /\ Cadence' = CadenceOf(isHost')) ]_vars

\* C16 witness: a host_update made a non-host the host and one notification
\* was raised
C16_Witness ==
    /\ Handled("msg", "host_update")
    /\ log[1].arg = 0 /\ log[1].flag /\ isHost
    /\ HostToasts(log) = 1
    /\ Cadence = {[id |-> syncInterval, kind |-> "host"]}

\* C17: host_position is sent only while the role flag is host, sync_request
\* only while it is non-host, and both only while the channel is open and a
\* current item is loaded.
C17_CadenceMessagesMatchRole ==
    \A i \in 1..Len(log) :
        (log[i].k = "send" /\ log[i].op \in {"host_position", "sync_request"}) =>
            /\ (log[i].op = "host_position") <=> isHost
            /\ IsOpen
            /\ currentMedia # NoMedia

\* C17 witness: the host-reporting timer sent a host_position on the second
\* channel of the run
C17_Witness ==
    /\ Handled("timer", "host")
    /\ Sent(log) # <<>> /\ Sent(log)[1].op = "host_position"
    /\ isHost /\ Len(readyState) > 1

\* C18: the role flag becomes host only in the handler of a state or
\* host_update frame that asserts isHost true; apart from the frames of the
\* relay the only change to it is the reset to non-host in the close handler.
C18_RoleOnlyFromRelay ==
    [][ (isHost' # isHost) =>
          /\ log' # <<>>
          /\ IF isHost'
             THEN \/ (log'[1].k = "msg" /\ log'[1].op = "state" /\ log'[1].msg.isHost)
                  \/ (log'[1].k = "msg" /\ log'[1].op = "host_update" /\ log'[1].flag)
             ELSE \/ (log'[1].k = "msg" /\ log'[1].op = "state" /\ ~log'[1].msg.isHost)
                  \/ (log'[1].k = "msg" /\ log'[1].op = "host_update" /\ ~log'[1].flag)
                  \/ (log'[1].k = "socket" /\ log'[1].op = "close") ]_vars

\* C18 witness: after the teardown of an earlier channel, a state frame that
\* asserts the host role has made the client the host
C18_Witness ==
    /\ Handled("msg", "state")
    /\ log[1].msg.isHost /\ isHost
    /\ \E s \in Sockets : readyState[s] = "CLOSED"

\* C20: at most one heartbeat timer is live, none once every channel has
\* closed, and the open handler sends join and then one ping.
C20_OneHeartbeat ==
    /\ Cardinality(Heartbeats) <= 1
    /\ (readyState # <<>> /\ \A s \in Sockets : readyState[s] = "CLOSED")
          => Heartbeats = {}
    /\ Handled("socket", "open") =>
          (Len(Sent(log)) = 2 /\ Sent(log)[1].op = "join" /\ Sent(log)[2].op = "ping")

----------------------------------------------------------------------------
(* Frames that fail to decode, backends without control, repeated sync *)

\* C13: a frame that fails to decode changes nothing of the session: role,
\* queue, current item, latency, suppression flag, timers, channel and
\* players are as before, so every later frame is handled from the state it
\* would have been handled from without it.
C13_MalformedFrameDropped ==
    [][ (log' # <<>> /\ log'[1].k = "msg" /\ log'[1].op = "malformed") =>
          UNCHANGED <<roomInput, status, socket, readyState, isRemoteAction,
                      lastSentSeek, pingInterval, syncInterval, latency, queue,
                      currentMedia, ytPlayer, ytReady, isHost, video, events,
                      intervals, timeouts, pings>> ]_vars

\* C13 witness: a malformed frame was handled in the middle of a session, with
\* an item loaded, the suppression flag set and its timeout pending
C13_Witness ==
    /\ Handled("msg", "malformed")
    /\ currentMedia # NoMedia /\ video.present
    /\ isRemoteAction /\ timeouts # <<>>
    /\ intervals # {}

\* the current item is on a backend without programmatic control
Uncontrollable ==
    \/ currentMedia.type \in {"twitch_vod", "twitch_live"}
    \/ currentMedia.type = "youtube" /\ ~ytPlayer.attached

\* C15: while the current item is on a backend without programmatic control,
\* getPosition() is 0, isPaused() is true, and the play, pause and seekTo of
\* a remote instruction reach no player object.
C15_UncontrollableBackendInert ==
    Uncontrollable =>
        /\ LocalPosition = 0
        /\ LocalPaused
        /\ (log # <<>> /\ log[1].k = "msg"
            /\ log[1].op \in {"play", "pause", "seek", "sync_response"})
              => \A i \in 1..Len(log) : log[i].k # "player"

\* case 'sync_response' as a function of the bundle
applySync(a, position, playing) ==
    IF syncApplies(isHost, currentMedia)
    THEN syncPlayState(syncPosition(a, position), playing)
    ELSE a

\* C19: from every reachable state, handling the same sync_response, or the
\* same seek, a second time leaves the players where the first handling left
\* them.
C19_CorrectionsIdempotent ==
    \A p \in Positions, pl \in BOOLEAN :
        LET a == Bundle(Evt("msg", "sync_response", p, pl))
            once == applySync(a, p, pl)
            twice == applySync(once, p, pl)
            b == Bundle(Evt("msg", "seek", p, FALSE))
            seek1 == remoteSeek(b, p)
            seek2 == remoteSeek(seek1, p)
        IN  /\ getPosition(twice) = getPosition(once)
            /\ isPaused(twice) = isPaused(once)
            /\ twice.v = once.v /\ twice.yt = once.yt
            /\ getPosition(seek2) = getPosition(seek1)
            /\ isPaused(seek2) = isPaused(seek1)
            /\ seek2.v = seek1.v /\ seek2.yt = seek1.yt

\* C19 witness: a sync_response has just been applied with both corrections
\* (a seek and a play) to a direct-file element
C19_Witness ==
    /\ Handled("msg", "sync_response")
    /\ Len(Calls(log)) = 2
    /\ video.present /\ video.time = 62 /\ ~video.paused

----------------------------------------------------------------------------
(* Snapshots, overlapping instructions, replaced channels *)

\* C21: the play or seeked notification that the calls of a state frame
\* caused on the direct-file element is not forwarded as an outbound frame.
C21_SnapshotNotEchoed ==
    (log # <<>> /\ log[1].k = "notify" /\ log[1].op \in {"play", "seeked"}
     /\ log[1].by = "state")
        => Sent(log) = <<>>

\* C22: while less than 100 ms have passed since a remote instruction was
\* applied (its timeout is not yet due) the suppression flag is set, also when
\* an earlier instruction's timeout has run meanwhile; and the flag is set
\* only while a timeout that will clear it is pending.
C22_SuppressedForFullDelay ==
    /\ (\E i \in 1..Len(timeouts) : timeouts[i] > now) => isRemoteAction
    /\ isRemoteAction => timeouts # <<>>

\* a close or error event of a channel that connect() has replaced is being
\* handled while the new channel is open
ReplacedChannelEvent ==
    /\ IsOpen
    /\ log' # <<>> /\ log'[1].k = "socket" /\ log'[1].op \in {"close", "error"}
    /\ log'[1].arg # socket

\* C23: an event of a replaced channel does not clear the heartbeat timer of
\* the new, open channel; when it follows the new channel's state frame it
\* clears neither that session's cadence timer nor the role flag the frame
\* set.
C23_ReplacedChannelInert ==
    [][ ReplacedChannelEvent =>
          /\ \A t \in intervals : t.id = pingInterval => t \in intervals'
          /\ Handled("msg", "state") =>
                /\ \A t \in intervals : t.id = syncInterval => t \in intervals'
                /\ isHost' = isHost ]_vars

====
